---- MODULE Spec2Model ----
(***************************************************************************)
(* Model of image_blending/show.py: the palette helper get_colors, the     *)
(* input normalisation _read_image_if_need, the grid display               *)
(* subplot_images and the point overlay draw_points.                       *)
(*                                                                         *)
(* Python values are records [type, s, ref]: a str carries its text in s,  *)
(* an ndarray is a reference ref into heap (object identity), None has     *)
(* type "NoneType".  Point coordinates are floats with a fractional part   *)
(* of .0 or .5 and are held as an integer number of halves.                *)
(***************************************************************************)
EXTENDS Integers, Sequences, FiniteSets, TLC

VARIABLES
    pc,             \* position inside the running function, or how it ended
    call,           \* the arguments as the caller passed them
    heap,           \* ndarray objects: reference -> pixel buffer
    image,          \* draw_points: local `image`
    colors,         \* draw_points: local `colors`
    current_color,  \* draw_points: local `current_color`
    idx,            \* draw_points: loop index of enumerate(points)
    ret,            \* value returned by the function
    images,         \* subplot_images: local `images`
    titles,         \* subplot_images: local `titles`
    i,              \* subplot_images: loop index of enumerate(images, start=1)
    log,            \* calls made to cv2 / matplotlib / get_colors, in order
    n_colors,       \* get_colors: argument of the call under test
    palette,        \* get_colors: result of the latest call
    previous,       \* get_colors: result of the call before it
    n_calls         \* get_colors: number of calls made so far

vars == <<pc, call, heap, image, colors, current_color, idx, ret,
          images, titles, i, log, n_colors, palette, previous, n_calls>>

----------------------------------------------------------------------------
(* Bounds *)

Width == 4              \* caller's image is Width x Height pixels
Height == 4
MaxPoints == 3          \* every list of at most MaxPoints points is tried
MaxExtra == 1           \* longest list has len(COLORS) + MaxExtra points
MaxDiameter == 2
NumSamples == 2         \* values np.random.randint is sampled at
MaxDim == 2             \* n_rows, n_columns in 1..MaxDim; one image more than
                        \* the largest grid holds is tried
MaxTitles == 3          \* longest list of titles
MaxN == 13              \* largest n_colors asked of get_colors directly
MaxNegative == 2        \* smallest n_colors asked of get_colors directly is -MaxNegative

----------------------------------------------------------------------------
(* Python values *)

PyNone == [type |-> "NoneType", s |-> "", ref |-> 0]
PyStr(s) == [type |-> "str", s |-> s, ref |-> 0]
PyArr(r) == [type |-> "ndarray", s |-> "", ref |-> r]

Min(a, b) == IF a <= b THEN a ELSE b
Max(a, b) == IF a >= b THEN a ELSE b

\* seq[:n]
PySliceTo(seq, n) ==
    SubSeq(seq, 1, IF n >= 0 THEN Min(n, Len(seq)) ELSE Max(0, Len(seq) + n))

\* [x] * n
PyRepeat(x, n) == [k \in 1..Max(n, 0) |-> x]

\* int(v) of a float held in halves: truncation toward zero
int(h) == IF h >= 0 THEN h \div 2 ELSE -((-h) \div 2)

----------------------------------------------------------------------------
(* Module constants *)

COLORS == << <<250, 50, 50>>, <<50, 250, 50>>, <<50, 50, 250>>,
             <<250, 250, 50>>, <<250, 50, 250>>, <<50, 250, 250>>,
             <<20, 150, 250>>, <<150, 20, 250>>, <<250, 20, 150>>,
             <<250, 150, 20>>, <<20, 250, 150>>, <<150, 250, 20>> >>

\* default of the parameter `color` of draw_points
DefaultColor == <<50, 250, 50>>

\* color=None
NoColor == << >>

----------------------------------------------------------------------------
(* Collaborators: numpy, cv2, the file system *)

\* values of np.random.randint(low, high): integers of [low, high), sampled
randint(low, high) ==
    { low + (k * (high - 1 - low)) \div (NumSamples - 1) : k \in 0..(NumSamples - 1) }

\* np.random.randint(low, high, (rows, 3)).tolist(): every possible outcome
randint_rows(low, high, rows) ==
    [1..rows -> [1..3 -> randint(low, high)]]

Pixels(w, h) == (0..(w - 1)) \X (0..(h - 1))

\* the caller's in-memory image: every pixel has its own value
CallerImage == [p \in Pixels(Width, Height) |-> <<p[1], p[2], 7>>]

\* the image stored in the readable file (a different shape)
FileImage == [p \in Pixels(Width - 1, Height) |-> <<p[2], p[1], 9>>]

ReadablePath == "ok.png"
MissingPath == "missing.png"
Files == [f \in {ReadablePath} |-> FileImage]

CallerRef == 1

NewRef(h) == IF DOMAIN h = {} THEN CallerRef + 1
             ELSE 1 + CHOOSE r \in DOMAIN h \cup {CallerRef} :
                        \A q \in DOMAIN h \cup {CallerRef} : q <= r

Alloc(h, buf) == [r \in DOMAIN h \cup {NewRef(h)} |->
                     IF r = NewRef(h) THEN buf ELSE h[r]]

\* cv2.imread(path): a fresh array, or None when the file cannot be read
imread(h, path) ==
    IF path \in DOMAIN Files
    THEN [heap |-> Alloc(h, Files[path]), val |-> PyArr(NewRef(h))]
    ELSE [heap |-> h, val |-> PyNone]

Dist2(p, c) == (p[1] - c[1]) * (p[1] - c[1]) + (p[2] - c[2]) * (p[2] - c[2])

\* cv2.circle(img, center, radius, color, -1): filled disc, clipped to img
circle(buf, center, radius, col) ==
    [p \in DOMAIN buf |-> IF Dist2(p, center) <= radius * radius THEN col ELSE buf[p]]

----------------------------------------------------------------------------
(* Calls made to the collaborators, recorded in order *)

Entry(fn) == [fn |-> fn, slot |-> 0, text |-> "", img |-> 0,
              center |-> <<0, 0>>, radius |-> 0, color |-> << >>]

NoneTitle == "<None>"

----------------------------------------------------------------------------
(* get_colors *)

get_colors_always_extend(n) ==
    { COLORS \o r : r \in randint_rows(0, 255, Max(n - Len(COLORS), 0)) }

\* every list get_colors(n) can return
get_colors(n) ==
    IF n <= Len(COLORS)
    THEN { PySliceTo(COLORS, n) }
    ELSE { COLORS \o r : r \in randint_rows(0, 255, n - Len(COLORS)) }

----------------------------------------------------------------------------
(* draw_points *)

\* the parameter `color`: the caller's value, or the default of the signature
color == IF call.has_color THEN call.color ELSE DefaultColor

points == call.points
diameter == call.diameter
inline == call.inline
axis == call.axis

copy_alias(h, ref) == [heap |-> h, val |-> PyArr(ref)]

\* image.copy(): a new array with the same shape and pixels
copy(h, ref) == [heap |-> Alloc(h, h[ref]), val |-> PyArr(NewRef(h))]

point_reversed(pts, k) == pts[Len(pts) - k]

\* the k-th pair of enumerate(points), k counted from 0
point(pts, k) == pts[k + 1]

first_palette_color(col, cols, k, cur) == IF col = NoColor THEN cols[1] ELSE cur

\* current_color of iteration k
next_color(col, cols, k, cur) == IF col = NoColor THEN cols[k + 1] ELSE cur

center_rounded(pt) == <<(pt[1] + 1) \div 2, (pt[2] + 1) \div 2>>

\* (int(x), int(y))
center(pt) == <<int(pt[1]), int(pt[2])>>

GridVarsIdle == <<images, titles, i>>
ColorVarsIdle == <<n_colors, palette, previous, n_calls>>

\* lines 135-136
DrawRead ==
    /\ pc = "d_read"
    /\ IF image.type = "str"
       THEN LET r == imread(heap, image.s)
            IN  /\ image' = r.val
                /\ heap' = r.heap
                /\ log' = Append(log, [Entry("imread") EXCEPT !.text = image.s])
       ELSE UNCHANGED <<image, heap, log>>
    /\ pc' = "d_copy"
    /\ UNCHANGED <<call, colors, current_color, idx, ret, GridVarsIdle, ColorVarsIdle>>

\* line 137
DrawCopy ==
    /\ pc = "d_copy"
    /\ IF image.type = "ndarray"
       THEN LET r == copy(heap, image.ref)
            IN  /\ image' = r.val
                /\ heap' = r.heap
                /\ pc' = "d_palette"
       ELSE /\ pc' = "AttributeError"
            /\ UNCHANGED <<image, heap>>
    /\ UNCHANGED <<call, colors, current_color, idx, ret, log, GridVarsIdle, ColorVarsIdle>>

\* lines 138-140
DrawPalette ==
    /\ pc = "d_palette"
    /\ current_color' = color
    /\ IF color = NoColor
       THEN /\ colors' \in get_colors(Len(points))
            /\ log' = Append(log, [Entry("get_colors") EXCEPT !.slot = Len(points)])
       ELSE UNCHANGED <<colors, log>>
    /\ idx' = 0
    /\ pc' = "d_loop"
    /\ UNCHANGED <<call, heap, image, ret, GridVarsIdle, ColorVarsIdle>>

\* lines 141-144, one iteration
DrawStamp ==
    /\ pc = "d_loop"
    /\ idx < Len(points)
    /\ LET c == next_color(color, colors, idx, current_color)
           at == center(point(points, idx))
       IN  /\ current_color' = c
           /\ heap' = [heap EXCEPT ![image.ref] = circle(@, at, diameter, c)]
           /\ log' = Append(log, [Entry("circle") EXCEPT !.img = image.ref,
                                      !.center = at, !.radius = diameter, !.color = c])
    /\ idx' = idx + 1
    /\ UNCHANGED <<pc, call, image, colors, ret, GridVarsIdle, ColorVarsIdle>>

\* lines 145-152
DrawReturn ==
    /\ pc = "d_loop"
    /\ idx = Len(points)
    /\ IF inline
       THEN /\ log' = log \o <<Entry("figure")>>
                          \o (IF axis THEN << >> ELSE <<[Entry("axis") EXCEPT !.text = "off"]>>)
                          \o <<[Entry("imshow") EXCEPT !.img = image.ref], Entry("show")>>
            /\ ret' = PyNone
       ELSE /\ ret' = image
            /\ UNCHANGED log
    /\ pc' = "done"
    /\ UNCHANGED <<call, heap, image, colors, current_color, idx, GridVarsIdle, ColorVarsIdle>>

\* floats with fractional part .0 or .5, as halves: (1.5, 1.5), (2.0, 1.0),
\* (-0.5, 0.5), (3.5, 3.0)
PointChoices == << <<3, 3>>, <<4, 2>>, <<-1, 1>>, <<7, 6>> >>

SeqsUpTo(S, n) == UNION { [1..k -> S] : k \in 0..n }

ShortLists == SeqsUpTo({ PointChoices[k] : k \in 1..Len(PointChoices) }, MaxPoints)

\* lists longer than the fixed palette, cycling through PointChoices
LongLists ==
    { [k \in 1..n |-> PointChoices[(k % Len(PointChoices)) + 1]] :
        n \in (Len(COLORS) + 1)..(Len(COLORS) + MaxExtra) }

FixedColors == { <<250, 50, 50>>, <<0, 0, 255>> }

ImageArgs == { PyArr(CallerRef), PyStr(ReadablePath), PyStr(MissingPath) }

DrawCall(im, pts, d, hc, col, inl, ax) ==
    [fn |-> "draw_points", image |-> im, points |-> pts, diameter |-> d,
     has_color |-> hc, color |-> col, inline |-> inl, axis |-> ax]

\* every combination of arguments with a short list; the long lists with
\* an in-memory image and axis=False
DrawCalls ==
    { DrawCall(im, pts, d, hc, col, inl, ax) :
        im \in ImageArgs, pts \in ShortLists, d \in 0..MaxDiameter,
        hc \in BOOLEAN, col \in FixedColors \cup {NoColor},
        inl \in BOOLEAN, ax \in BOOLEAN }
    \cup
    { DrawCall(PyArr(CallerRef), pts, d, hc, col, inl, FALSE) :
        pts \in LongLists, d \in 0..MaxDiameter,
        hc \in BOOLEAN, col \in FixedColors \cup {NoColor}, inl \in BOOLEAN }

HeapFor(args) == IF PyArr(CallerRef) \in args
                 THEN [r \in {CallerRef} |-> CallerImage]
                 ELSE [r \in {} |-> CallerImage]

\* a call that does not pass `color` has nothing in that field
DrawInit ==
    /\ call \in { c \in DrawCalls : ~c.has_color => c.color = NoColor }
    /\ pc = "d_read"
    /\ heap = HeapFor({call.image})
    /\ image = call.image
    /\ colors = << >>
    /\ current_color = << >>
    /\ idx = 0
    /\ ret = PyNone
    /\ images = << >>
    /\ titles = << >>
    /\ i = 0
    /\ log = << >>
    /\ n_colors = 0
    /\ palette = << >>
    /\ previous = << >>
    /\ n_calls = 0

DrawNext == DrawRead \/ DrawCopy \/ DrawPalette \/ DrawStamp \/ DrawReturn

SpecDraw == DrawInit /\ [][DrawNext]_vars

----------------------------------------------------------------------------
(* _read_image_if_need *)

RECURSIVE read_from(_, _, _)
\* the loop of lines 31-34 from position k on; acc = [images, heap, log]
read_from(args, k, acc) ==
    IF k > Len(args) THEN acc
    ELSE LET a == args[k]
             r == imread(acc.heap, a.s)
         IN  IF a.type = "str"
             THEN read_from(args, k + 1,
                      [images |-> Append(acc.images, r.val),
                       heap |-> r.heap,
                       log |-> Append(acc.log, [Entry("imread") EXCEPT !.text = a.s])])
             ELSE read_from(args, k + 1,
                      [acc EXCEPT !.images = Append(@, a)])

_read_image_if_need(args, h, lg) ==
    read_from(args, 1, [images |-> << >>, heap |-> h, log |-> lg])

----------------------------------------------------------------------------
(* subplot_images *)

PyList(items) == [type |-> "list", s |-> "", items |-> items]
PyTitle(s) == [type |-> "str", s |-> s, items |-> << >>]
PyNoTitle == [type |-> "NoneType", s |-> NoneTitle, items |-> << >>]

n_rows == call.n_rows
n_columns == call.n_columns

no_check(n, rows, columns) == TRUE

\* the condition asserted on line 94
fits(n, rows, columns) == n <= rows * columns

single_title(t, n) == PyList(PyRepeat(t.s, 1))

\* lines 95-96
broadcast(t, n) ==
    IF t.type = "NoneType" \/ t.type = "str" THEN PyList(PyRepeat(t.s, n)) ELSE t

lookup_or_blank(items, k) ==
    IF 0 <= k /\ k < Len(items)
    THEN [raised |-> FALSE, val |-> items[k + 1]]
    ELSE [raised |-> FALSE, val |-> ""]

\* items[k] for k >= 0: the element, or IndexError
lookup(items, k) ==
    IF 0 <= k /\ k < Len(items)
    THEN [raised |-> FALSE, val |-> items[k + 1]]
    ELSE [raised |-> TRUE, val |-> ""]

DrawVarsIdle == <<image, colors, current_color, idx>>

\* line 94
GridAssert ==
    /\ pc = "g_assert"
    /\ pc' = IF fits(Len(images), n_rows, n_columns) THEN "g_titles" ELSE "AssertionError"
    /\ UNCHANGED <<call, heap, ret, images, titles, i, log, DrawVarsIdle, ColorVarsIdle>>

\* lines 95-98
GridPrepare ==
    /\ pc = "g_titles"
    /\ titles' = broadcast(titles, Len(images))
    /\ LET r == _read_image_if_need(images, heap, Append(log, Entry("figure")))
       IN  /\ images' = r.images
           /\ heap' = r.heap
           /\ log' = r.log
    /\ i' = 1
    /\ pc' = "g_loop"
    /\ UNCHANGED <<call, ret, DrawVarsIdle, ColorVarsIdle>>

\* lines 99-105, one iteration; plt.imshow(None) raises TypeError
GridPlot ==
    /\ pc = "g_loop"
    /\ i <= Len(images)
    /\ LET t == lookup(titles.items, i - 1)
           img == images[i]
           l1 == Append(log, [Entry("subplot") EXCEPT !.slot = i])
           l2 == Append(l1, [Entry("title") EXCEPT !.slot = i, !.text = t.val])
           l3 == IF call.axis THEN l2
                 ELSE Append(l2, [Entry("axis") EXCEPT !.slot = i, !.text = "off"])
           l4 == Append(l3, [Entry("tight_layout") EXCEPT !.slot = i])
       IN  IF t.raised
           THEN /\ log' = l1
                /\ pc' = "IndexError"
                /\ UNCHANGED i
           ELSE IF img.type # "ndarray"
           THEN /\ log' = l4
                /\ pc' = "TypeError"
                /\ UNCHANGED i
           ELSE /\ log' = Append(l4, [Entry("imshow") EXCEPT !.slot = i, !.img = img.ref])
                /\ i' = i + 1
                /\ UNCHANGED pc
    /\ UNCHANGED <<call, heap, ret, images, titles, DrawVarsIdle, ColorVarsIdle>>

\* line 106
GridShow ==
    /\ pc = "g_loop"
    /\ i > Len(images)
    /\ log' = Append(log, Entry("show"))
    /\ pc' = "done"
    /\ UNCHANGED <<call, heap, ret, images, titles, i, DrawVarsIdle, ColorVarsIdle>>

MaxImages == MaxDim * MaxDim + 1

\* lists of in-memory images in which at most one element is a path
ImageLists ==
    { [k \in 1..n |-> IF k = j THEN a ELSE PyArr(CallerRef)] :
        n \in 0..MaxImages, j \in 0..MaxImages, a \in ImageArgs }

TitleArgs ==
    { PyNoTitle, PyTitle("t") }
        \cup { PyList(ts) : ts \in SeqsUpTo({"a", "b"}, MaxTitles) }

GridCalls ==
    { [fn |-> "subplot_images", images |-> ims, n_rows |-> r, n_columns |-> c,
       titles |-> ts, axis |-> ax] :
        ims \in ImageLists, r \in 1..MaxDim, c \in 1..MaxDim,
        ts \in TitleArgs, ax \in BOOLEAN }

GridInit ==
    /\ call \in GridCalls
    /\ pc = "g_assert"
    /\ heap = HeapFor({ call.images[k] : k \in 1..Len(call.images) })
    /\ images = call.images
    /\ titles = call.titles
    /\ i = 0
    /\ image = PyNone
    /\ colors = << >>
    /\ current_color = << >>
    /\ idx = 0
    /\ ret = PyNone
    /\ log = << >>
    /\ n_colors = 0
    /\ palette = << >>
    /\ previous = << >>
    /\ n_calls = 0

GridNext == GridAssert \/ GridPrepare \/ GridPlot \/ GridShow

SpecGrid == GridInit /\ [][GridNext]_vars

----------------------------------------------------------------------------
(* get_colors called directly, twice with the same argument *)

CallGetColors ==
    /\ pc \in {"c_first", "c_second"}
    /\ palette' \in get_colors(n_colors)
    /\ previous' = palette
    /\ n_calls' = n_calls + 1
    /\ pc' = IF pc = "c_first" THEN "c_second" ELSE "done"
    /\ UNCHANGED <<call, heap, ret, log, n_colors, DrawVarsIdle, GridVarsIdle>>

ColorsInit ==
    /\ n_colors \in (-MaxNegative)..MaxN
    /\ pc = "c_first"
    /\ call = [fn |-> "get_colors"]
    /\ heap = HeapFor({})
    /\ palette = << >>
    /\ previous = << >>
    /\ n_calls = 0
    /\ images = << >>
    /\ titles = << >>
    /\ i = 0
    /\ image = PyNone
    /\ colors = << >>
    /\ current_color = << >>
    /\ idx = 0
    /\ ret = PyNone
    /\ log = << >>

ColorsNext == CallGetColors

SpecColors == ColorsInit /\ [][ColorsNext]_vars

----------------------------------------------------------------------------
(* Vocabulary of the properties *)

Terminal == {"done", "AssertionError", "AttributeError", "IndexError", "TypeError"}

\* the image draw_points was given, decoded if it was given as a path
InputImage == IF call.image.type = "ndarray" THEN CallerImage ELSE Files[call.image.s]

\* the cv2.circle calls made so far, in order
Circles == SelectSeq(log, LAMBDA e : e.fn = "circle")

\* pixel p is within `radius` of the truncated coordinates of pt
Within(p, pt, radius2) == Dist2(p, <<int(pt[1]), int(pt[2])>>) <= radius2

\* p lies in the marker stamped for pt
InMarker(p, pt) == Within(p, pt, diameter * diameter)

\* the color the policy assigns to the point with index k (from 1)
ColorOf(k) == IF color = NoColor THEN colors[k] ELSE color

Covering(p, n) == { k \in 1..n : InMarker(p, points[k]) }

Highest(S) == CHOOSE k \in S : \A j \in S : j <= k

IsColor(c) == Len(c) = 3 /\ \A ch \in 1..3 : c[ch] \in 0..255

Decodable == \A k \in 1..Len(call.images) : call.images[k] # PyStr(MissingPath)

TitleCalls == SelectSeq(log, LAMBDA e : e.fn = "title")

----------------------------------------------------------------------------
(* Properties of draw_points, under SpecDraw *)

\* C1: the caller's image is never changed by draw_points: every pixel keeps
\* its value, and every cv2.circle call is made on another array (the copy).
C1_CallerImageUntouched ==
    call.image.type = "ndarray" =>
        /\ heap[CallerRef] = CallerImage
        /\ \A k \in 1..Len(Circles) : Circles[k].img # CallerRef

C1_Witness ==
    /\ call.image.type = "ndarray"
    /\ pc = "done"
    /\ image.ref # CallerRef
    /\ \E p \in DOMAIN CallerImage : heap[image.ref][p] # CallerImage[p]

\* C2: with inline=False the returned buffer has the shape of the input image
\* and every pixel outside all markers has the value it has in the input.
C2_ReturnedBufferUnchangedOutsideMarkers ==
    (pc = "done" /\ ~inline) =>
        /\ ret.type = "ndarray"
        /\ DOMAIN heap[ret.ref] = DOMAIN InputImage
        /\ \A p \in DOMAIN InputImage :
              Covering(p, Len(points)) = {} => heap[ret.ref][p] = InputImage[p]

C2_Witness ==
    /\ pc = "done"
    /\ ~inline
    /\ ret.type = "ndarray"
    /\ \E p \in DOMAIN InputImage : heap[ret.ref][p] # InputImage[p]
    /\ \E p \in DOMAIN InputImage : Covering(p, Len(points)) = {}

\* C3: a fixed color is the color of every stamp; with color=None the palette
\* is get_colors(len(points)), obtained by one call, and stamp k has palette
\* entry k: the fixed palette up to entry 12, a random triple after it.
C3_ColorPolicy ==
    /\ Len(Circles) <= Len(points)
    /\ color # NoColor =>
          /\ \A k \in 1..Len(Circles) : Circles[k].color = color
          /\ \A k \in 1..Len(log) : log[k].fn # "get_colors"
    /\ (color = NoColor /\ pc \in {"d_loop", "done"}) =>
          /\ Len(colors) = Len(points)
          /\ Cardinality({ k \in 1..Len(log) : log[k].fn = "get_colors" }) = 1
          /\ \A k \in 1..Len(log) :
                log[k].fn = "get_colors" => log[k].slot = Len(points)
          /\ \A k \in 1..Len(Circles) :
                /\ Circles[k].color = colors[k]
                /\ k <= Len(COLORS) => colors[k] = COLORS[k]
                /\ k > Len(COLORS) => IsColor(colors[k])
          /\ Len(Circles) >= 1 => Circles[1].color = <<250, 50, 50>>

C3_Witness ==
    /\ pc = "done"
    /\ color = NoColor
    /\ Len(Circles) > Len(COLORS)
    /\ Circles[Len(COLORS) + 1].color \notin { COLORS[k] : k \in 1..Len(COLORS) }

\* C4: in the resulting image a pixel covered by the markers of one or more
\* points has the color of the covering point with the highest index.
C4_LaterPointWins ==
    pc = "done" =>
        \A p \in DOMAIN heap[image.ref] :
            Covering(p, Len(points)) # {} =>
                heap[image.ref][p] = ColorOf(Highest(Covering(p, Len(points))))

C4_Witness ==
    /\ pc = "done"
    /\ color = NoColor
    /\ \E p \in DOMAIN heap[image.ref] :
          \E j, k \in Covering(p, Len(points)) :
              /\ j < k
              /\ k = Highest(Covering(p, Len(points)))
              /\ colors[j] # colors[k]
              /\ heap[image.ref][p] = colors[k]

\* C5: each marker is a filled disc whose diameter is the diameter argument,
\* centred at the truncated coordinates: a pixel of the result that differs
\* from the input lies within diameter/2 of some point's truncated position.
C5_MarkerHasGivenDiameter ==
    pc = "done" =>
        \A p \in DOMAIN InputImage :
            heap[image.ref][p] # InputImage[p] =>
                \E k \in 1..Len(points) : Within(p, points[k], (diameter * diameter) \div 4)

\* C10: when the caller does not pass color, any two points with different
\* indices are stamped with different colors.
C10_UnsetColorGivesDistinctColors ==
    ~call.has_color =>
        \A j, k \in 1..Len(Circles) : j # k => Circles[j].color # Circles[k].color

----------------------------------------------------------------------------
(* Properties of get_colors, under SpecColors *)

\* C6: for n >= 0 get_colors(n) has n entries; the first min(n, 12) are the
\* fixed palette in order, the same on every call; the others are triples
\* with every component in [0, 255].
C6_GetColorsReference ==
    (n_colors >= 0 /\ n_calls >= 1) =>
        /\ Len(palette) = n_colors
        /\ \A k \in 1..Len(palette) :
              /\ k <= Len(COLORS) => palette[k] = COLORS[k]
              /\ k > Len(COLORS) => IsColor(palette[k])
        /\ n_calls >= 2 =>
              SubSeq(previous, 1, Min(n_colors, 12)) = SubSeq(palette, 1, Min(n_colors, 12))

C6_Witness ==
    /\ n_calls >= 2
    /\ n_colors > 12
    /\ Len(palette) = n_colors
    /\ previous # palette

----------------------------------------------------------------------------
(* Properties of subplot_images, under SpecGrid *)

\* C7: with more images than n_rows * n_columns the call fails with an
\* AssertionError, and no image is decoded and no plotting call is made.
C7_TooManyImagesAssertsFirst ==
    Len(call.images) > n_rows * n_columns =>
        /\ pc \in {"g_assert", "AssertionError"}
        /\ log = << >>
        /\ images = call.images
        /\ DOMAIN heap \subseteq {CallerRef}

C7_Witness ==
    /\ pc = "AssertionError"
    /\ Len(call.images) = n_rows * n_columns + 1
    /\ \E k \in 1..Len(call.images) : call.images[k].type = "str"

\* C8 as stated: a list of titles whose length differs from the number of
\* images makes the call end in an IndexError.
C8_AnyMismatchIndexError ==
    (/\ call.titles.type = "list"
     /\ Len(call.titles.items) # Len(call.images)
     /\ Len(call.images) <= n_rows * n_columns
     /\ Decodable
     /\ pc \in Terminal) => pc = "IndexError"

\* C8 amended: a list of titles shorter than the list of images is not
\* rejected up front (the figure is created and the first subplots are
\* drawn), and the call ends in an IndexError at slot len(titles) + 1.
C8_ShorterTitlesIndexError ==
    (/\ call.titles.type = "list"
     /\ Len(call.titles.items) < Len(call.images)
     /\ Len(call.images) <= n_rows * n_columns
     /\ Decodable) =>
        /\ pc # "done"
        /\ pc = "g_loop" => i <= Len(call.titles.items) + 1
        /\ pc \in Terminal =>
              /\ pc = "IndexError"
              /\ log[1].fn = "figure"
              /\ log[Len(log)] = [Entry("subplot") EXCEPT !.slot = Len(call.titles.items) + 1]
              /\ Len(TitleCalls) = Len(call.titles.items)

C8_Witness ==
    /\ pc = "IndexError"
    /\ call.titles.type = "list"
    /\ Len(call.titles.items) >= 1
    /\ Len(call.titles.items) < Len(call.images)
    /\ Decodable

\* C9: a single title string, or no title, is the title of every slot: the
\* k-th title call is for slot k with that value, the titles never run out,
\* and a call that completes has titled one slot per image.
C9_SingleTitleBroadcast ==
    call.titles.type \in {"NoneType", "str"} =>
        /\ pc # "IndexError"
        /\ \A k \in 1..Len(TitleCalls) :
              TitleCalls[k].slot = k /\ TitleCalls[k].text = call.titles.s
        /\ pc = "done" => Len(TitleCalls) = Len(call.images)

C9_Witness ==
    /\ pc = "done"
    /\ call.titles = PyTitle("t")
    /\ Len(call.images) >= 2
    /\ Len(TitleCalls) = Len(call.images)

====
